---------------------------- MODULE Spec2Model ----------------------------
(***************************************************************************)
(* Model of three components of the glow repository:                       *)
(*                                                                         *)
(*  - getTopKPairs of tools/loader/ImageClassifier.cpp, the top-K reducer  *)
(*    over one vector of scores, stepped through its scan loop and its     *)
(*    drain loop, followed by checkExpectedLabel on the pairs returned;    *)
(*  - QueueBackedDeviceManager (the second translation unit held in        *)
(*    tests/unittests/ImageTest.cpp, lines 191-267), whose operations      *)
(*    are handed to a one-thread ThreadPool;                               *)
(*  - main of tools/loader/ImageClassifier.cpp, the batch inference        *)
(*    driver: the checks of the command line, the worker threads it        *)
(*    starts and joins, and processImageRange, which each worker runs.     *)
(*                                                                         *)
(* Scores are floats in the source.  Only their order is ever used by      *)
(* getTopKPairs, so a score is modelled by its rank 0..MaxScore among the  *)
(* finite floats of the vector (0.1 < 0.4 < 0.9 become 0 < 1 < 2).  NaN    *)
(* scores are outside the model.  Label indices are 0-based as in the      *)
(* source; TLA+ sequences are 1-based, so H.at({i}) is H[i + 1].           *)
(***************************************************************************)
EXTENDS Integers, Sequences, FiniteSets, TLC

\* ------------------------------------------------------------------ bounds
MaxLen == 4
MaxScore == 2
\* Largest -label-offset.
MaxOffset == 2
\* Widths of unsigned and of size_t, scaled down from 32 and 64 bits; size_t
\* stays the wider type, as on the 64-bit targets the loader is built for.
UnsignedBits == 3
SizeBits == 6
\* Calls the producer threads make on one device manager, all threads together.
MaxOps == 3
\* Image filenames on the command line or in the list file.
MaxImages == 4
\* Largest -minibatch and largest -minibatch-threads.
MaxMiniBatch == 2
MaxThreads == 3
\* Lines standard input holds before its end, and filenames on one line.
MaxLines == 2
MaxLineFiles == 2

\* ------------------------------------------------------------- variables
VARIABLES
  \* getTopKPairs
  H,            \* the 1-d score vector (Handle<ElemTy> H)
  topKCount,    \* the -topk option
  i,            \* loop counter of the scan loop, then of the drain loop
  topKQueue,    \* the priority queue, as the set of pairs it holds
  res,          \* the result vector
  pcK,          \* "scan", "drain", "done", "checked"
  \* processAndPrintResultsImpl, for the sample getTopKPairs is called on
  labelOffset,            \* the -label-offset option
  labelsGiven,            \* !expectedMatchingLabels.empty()
  expectedCategoryIndex,  \* expectedMatchingLabels[i], the sample's label
  retVal,                 \* the mismatch count of the batch
  \* QueueBackedDeviceManager and its one-thread pool workThread_
  nextIdentifier_,  \* the run identifier counter
  workQueue,        \* workThread_'s queue of tasks, oldest first
  shouldStop,       \* workThread_'s stop flag
  worker,           \* state of each pool thread: "waiting", "running", "exited"
  running,          \* the Impl calls in progress, as <<thread, task>>
  pc,               \* where each producer thread is: "idle", "run_submit"
  id,               \* runFunction's local id, per producer thread
  calls,            \* number of calls each producer thread has begun
  pcO,              \* the owner thread: "live", "join", "destroyed"
  inDtor,           \* the destructor has begun
  stopCalled,       \* the owner has called stop explicitly
  \* history, read by the properties only
  submitted,        \* the operations, in the order of their submit calls
  executed,         \* the tasks, in the order the pool began to run them
  returned,         \* the identifiers runFunction returned, per thread
  atFirstStop,      \* submitted, as it was when stop was first called
  pendingAtStop,    \* workQueue, as it was when stop was first called
  stopLog,          \* the stop calls that have returned: <<block, by>>
  \* main and processImageRange
  opts,             \* the command line, as parseCommandLine leaves it
  pcMain,           \* "start", "run", "returned", "exited", "aborted"
  numThreads,       \* main's numThreads
  spawned,          \* main's i in the loop that starts the threads
  joined,           \* threads the join loop has passed
  exitStatus,       \* the status main returned or passed to std::exit
  io_mu,            \* the workers that hold io_mu
  numErrors,        \* main's numErrors
  wpc,              \* where each worker is: "unstarted", "loop", "infer",
                    \* "lock", "print", "after_loop", "done"
  imageRange,       \* <<startIndex, endIndex>> given to each worker
  isFirstRun,       \* per worker
  miniBatchIndex,   \* per worker
  inputImageBatchFilenames,  \* per worker, as a sequence of image names
  compiledSize,     \* per worker: batch size the model was compiled for
  sum,              \* per worker: the value numErrors += ... will store
  linesRead,        \* lines read from standard input
  lineLog,          \* the number of names on each line read, in order
  \* history, read by the properties only
  inferences,       \* the runInference calls: [by, batch]
  compiles,         \* buildAndCompileAndGetInAndOutPair calls per worker
  checked,          \* the checkExpectedLabel calls: <<image, label index>>
  mismatches,       \* sum of the values processAndPrintResults returned
  serialized        \* workers that serialized the quantization profile

checkVars == <<labelOffset, labelsGiven, expectedCategoryIndex, retVal>>

topKVars == <<H, topKCount, i, topKQueue, res, pcK,
              labelOffset, labelsGiven, expectedCategoryIndex, retVal>>

dmVars == <<nextIdentifier_, workQueue, shouldStop, worker, running, pc, id,
            calls, pcO, inDtor, stopCalled, submitted, executed, returned,
            atFirstStop, pendingAtStop, stopLog>>

drvVars == <<opts, pcMain, numThreads, spawned, joined, exitStatus, io_mu,
             numErrors, wpc, imageRange, isFirstRun, miniBatchIndex,
             inputImageBatchFilenames, compiledSize, sum, linesRead,
             lineLog, inferences, compiles, checked, mismatches,
             serialized>>

vars == <<H, topKCount, i, topKQueue, res, pcK,
          labelOffset, labelsGiven, expectedCategoryIndex, retVal,
          nextIdentifier_, workQueue, shouldStop, worker, running, pc, id,
          calls, pcO, inDtor, stopCalled, submitted, executed, returned,
          atFirstStop, pendingAtStop, stopLog,
          opts, pcMain, numThreads, spawned, joined, exitStatus, io_mu,
          numErrors, wpc, imageRange, isFirstRun, miniBatchIndex,
          inputImageBatchFilenames, compiledSize, sum, linesRead,
          lineLog, inferences, compiles, checked, mismatches,
          serialized>>

\* ------------------------------------------------------------ getTopKPairs

\* A FloatIndexPair is <<score, index>>.
FloatIndexPair(score, index) == <<score, index>>

\* operator< of std::pair: lexicographic on (first, second).  Where two
\* definitions follow one comment, the last is the source's and those before
\* it are faulty variants of it, against which the properties are tested.
PairLessIndexReversed(a, b) ==
  \/ a[1] < b[1]
  \/ a[1] = b[1] /\ a[2] > b[2]

PairLess(a, b) ==
  \/ a[1] < b[1]
  \/ a[1] = b[1] /\ a[2] < b[2]

\* std::priority_queue<..., std::greater<FloatIndexPair>>::top(): with
\* std::greater as comparator the top is the least pair held.
QueueTop(q) == CHOOSE p \in q : \A o \in q : o = p \/ PairLess(p, o)

\* The test that decides whether the current pair replaces the top.
EvictTestReversed(top, currProbability) == top[1] > currProbability

EvictTestOrEqual(top, currProbability) == top[1] <= currProbability

EvictTest(top, currProbability) == top[1] < currProbability

\* The slot of res that the i-th popped pair is written to (0-based).
DrainSlotForward(k, n) == n

DrainSlot(k, n) == k - n - 1

\* Vectors of length 1..MaxLen, and K with 1 <= K <= N (the assert of line 240
\* and the lower bound the option's use assumes).
ScoreVectors == UNION {[1..n -> 0..MaxScore] : n \in 1..MaxLen}

\* The values of an unsigned, and the modulus of size_t arithmetic.
UnsignedMax == 2^UnsignedBits - 1

SizeModulus == 2^SizeBits

\* The expected labels tried: every index of the vector, the one past, and
\* the largest unsigned.
ExpectedLabels == 0..MaxLen \cup {UnsignedMax}

InitTopK ==
  /\ H \in ScoreVectors
  /\ topKCount \in 1..Len(H)
  /\ i = 0
  /\ topKQueue = {}
  /\ res = <<>>
  /\ pcK = "scan"
  /\ labelOffset \in 0..MaxOffset
  /\ labelsGiven \in BOOLEAN
  /\ expectedCategoryIndex \in IF labelsGiven THEN ExpectedLabels ELSE {0}
  /\ retVal = 0

\* One iteration of the loop over all the probabilities.
ScanStep ==
  /\ pcK = "scan"
  /\ i < Len(H)
  /\ LET currProbability == H[i + 1] IN
       IF Cardinality(topKQueue) < topKCount
         THEN topKQueue' = topKQueue \cup {FloatIndexPair(currProbability, i)}
         ELSE IF EvictTest(QueueTop(topKQueue), currProbability)
           THEN topKQueue' = (topKQueue \ {QueueTop(topKQueue)})
                               \cup {FloatIndexPair(currProbability, i)}
           ELSE topKQueue' = topKQueue
  /\ i' = i + 1
  /\ UNCHANGED <<H, topKCount, res, pcK>>
  /\ UNCHANGED <<checkVars, dmVars, drvVars>>

\* The scan loop ends; res is constructed with topKCount default pairs.
ScanEnd ==
  /\ pcK = "scan"
  /\ i = Len(H)
  /\ res' = [n \in 1..topKCount |-> FloatIndexPair(0, 0)]
  /\ i' = 0
  /\ pcK' = "drain"
  /\ UNCHANGED <<H, topKCount, topKQueue>>
  /\ UNCHANGED <<checkVars, dmVars, drvVars>>

\* One iteration of the drain loop: res[topKCount - i - 1] = top(); pop().
DrainStep ==
  /\ pcK = "drain"
  /\ i < topKCount
  /\ res' = [res EXCEPT ![DrainSlot(topKCount, i) + 1] = QueueTop(topKQueue)]
  /\ topKQueue' = topKQueue \ {QueueTop(topKQueue)}
  /\ i' = i + 1
  /\ UNCHANGED <<H, topKCount, pcK>>
  /\ UNCHANGED <<checkVars, dmVars, drvVars>>

\* return res
DrainEnd ==
  /\ pcK = "drain"
  /\ i = topKCount
  /\ pcK' = "done"
  /\ UNCHANGED <<H, topKCount, i, topKQueue, res>>
  /\ UNCHANGED <<checkVars, dmVars, drvVars>>

\* p.second - labelOffset: size_t minus unsigned, in size_t arithmetic.
LabelOf(index) == (index - labelOffset) % SizeModulus

\* checkExpectedLabel(topKPairs, fileName, expectedCategoryIndex)
\* (a check that looks at the first pair only comes first)
CheckExpectedLabelFirstOnly(topKPairs, expected) ==
  IF LabelOf(topKPairs[1][2]) = expected THEN 0 ELSE 1

CheckExpectedLabel(topKPairs, expected) ==
  IF \E p \in 1..Len(topKPairs) : LabelOf(topKPairs[p][2]) = expected
    THEN 0 ELSE 1

\* processAndPrintResultsImpl after getTopKPairs has returned: the pairs are
\* printed and, when expected labels are given, checked.
CheckSample ==
  /\ pcK = "done"
  /\ retVal' = IF labelsGiven
                 THEN retVal + CheckExpectedLabel(res, expectedCategoryIndex)
                 ELSE retVal
  /\ pcK' = "checked"
  /\ UNCHANGED <<H, topKCount, i, topKQueue, res, labelOffset, labelsGiven,
                 expectedCategoryIndex>>
  /\ UNCHANGED <<dmVars, drvVars>>

NextTopK == ScanStep \/ ScanEnd \/ DrainStep \/ DrainEnd \/ CheckSample

\* ------------------------------------------------- observers of the result
Returned == pcK = "done"

ResIndices == {res[p][2] : p \in 1..Len(res)}

NotReturned == {j \in 0..(Len(H) - 1) : j \notin ResIndices}


\* ------------------------------------------------------------ claims C1-C4

\* C1: for every score vector of length N and every K with 1 <= K <= N,
\* getTopKPairs returns exactly K pairs, with pairwise distinct indices, each
\* pair's score being the input score at its index, and the least returned
\* score is >= the score at every index that was not returned.
C1_TopKContract ==
  Returned =>
    /\ Len(res) = topKCount
    /\ \A p, q \in 1..Len(res) : p # q => res[p][2] # res[q][2]
    /\ \A p \in 1..Len(res) :
         /\ res[p][2] \in 0..(Len(H) - 1)
         /\ res[p][1] = H[res[p][2] + 1]
    /\ \A p \in 1..Len(res) : \A j \in NotReturned : res[p][1] >= H[j + 1]

\* A call with 2 <= K < N in which a pair pushed among the first K was
\* evicted later.
C1_Witness ==
  /\ Returned
  /\ topKCount >= 2
  /\ topKCount < Len(H)
  /\ \E j \in NotReturned : j < topKCount

\* C2 as stated: the returned entries are in strictly descending score order.
C2_StrictlyDescending ==
  Returned => \A p \in 1..(Len(res) - 1) : res[p][1] > res[p + 1][1]

\* C2 amended: the returned entries are in descending score order, each
\* entry's score being greater than or equal to the score of the next entry
\* (equal when the vector holds ties among its K highest scores).
C2_Descending ==
  Returned => \A p \in 1..(Len(res) - 1) : res[p][1] >= res[p + 1][1]

\* A result of three entries with a strict descent followed by a tie.
C2_Witness ==
  /\ Returned
  /\ Len(res) = 3
  /\ res[1][1] > res[2][1]
  /\ res[2][1] = res[3][1]

\* C3 as stated: for indices a < b holding equal scores, the result never
\* contains b while leaving out a.
C3_LowerIndexKept ==
  Returned =>
    \A a, b \in 0..(Len(H) - 1) :
      (a < b /\ H[a + 1] = H[b + 1])
        => ~(b \in ResIndices /\ a \notin ResIndices)

\* C3 amended: for indices a < b holding equal scores, the result contains b
\* while leaving out a only when some index after b holds a strictly greater
\* score (the pair at a, the least pair held, was evicted by it); a later
\* pair of equal score never displaces an earlier one by itself.
C3_LowerIndexKeptUnlessEvictedLater ==
  Returned =>
    \A a, b \in 0..(Len(H) - 1) :
      (a < b /\ H[a + 1] = H[b + 1] /\ b \in ResIndices /\ a \notin ResIndices)
        => \E c \in (b + 1)..(Len(H) - 1) : H[c + 1] > H[a + 1]

\* The case the amendment adds: two equal scores at a < b, the pair at a
\* evicted by a strictly greater score found after b, the pair at b returned.
C3_Witness ==
  /\ Returned
  /\ \E a, b \in 0..(Len(H) - 1) :
       /\ a < b
       /\ H[a + 1] = H[b + 1]
       /\ b \in ResIndices
       /\ a \notin ResIndices
       /\ \E c \in (b + 1)..(Len(H) - 1) : H[c + 1] > H[a + 1]

\* C4 as stated: entries of the result holding equal scores appear in
\* increasing index order, and [0.1, 0.9, 0.4, 0.9] with K = 2 yields
\* [(0.9, 1), (0.9, 3)].
C4_TiesByIncreasingIndex ==
  Returned =>
    /\ \A p, q \in 1..Len(res) :
         (p < q /\ res[p][1] = res[q][1]) => res[p][2] < res[q][2]
    /\ (H = <<0, 2, 1, 2>> /\ topKCount = 2) => res = <<<<2, 1>>, <<2, 3>>>>

\* C4 amended: entries of the result holding equal scores appear in
\* decreasing index order (the pair with the larger index is placed ahead),
\* so [0.1, 0.9, 0.4, 0.9] with K = 2 yields [(0.9, 3), (0.9, 1)].
C4_TiesByDecreasingIndex ==
  Returned =>
    /\ \A p, q \in 1..Len(res) :
         (p < q /\ res[p][1] = res[q][1]) => res[p][2] > res[q][2]
    /\ (H = <<0, 2, 1, 2>> /\ topKCount = 2) => res = <<<<2, 3>>, <<2, 1>>>>

\* The vector of the example, reduced with K = 2.
C4_Witness ==
  /\ Returned
  /\ H = <<0, 2, 1, 2>>
  /\ topKCount = 2
  /\ res[1][1] = res[2][1]


\* ------------------------------------------------ QueueBackedDeviceManager

\* The producer threads that call addNetwork, evictNetwork and runFunction.
ProducerThread(n) == <<"producer", n>>

Producers == {ProducerThread(1), ProducerThread(2)}

\* workThread_(1): the pool is constructed with one thread.
\* (a pool constructed with one thread more)
NumWorkersTwo == 1 + 1

NumWorkers == 1

\* The threads of the pool.
WorkerThread(n) == <<"worker", n>>

Workers == {WorkerThread(n) : n \in 1..NumWorkers}

\* An operation as a producer thread requests it, and the task made of it.
\* by and seq (the number of the call within its thread) tell the calls apart.
Op(kind, runId, by, seq) ==
  [kind |-> kind, id |-> runId, by |-> by, seq |-> seq]

NoId == -1

\* RunIdentifierTy id = nextIdentifier_++ : the value the counter takes.
NextIdentifierStuck(n) == n

NextIdentifierDown(n) == n - 1

NextIdentifier(n) == n + 1

\* What each operation hands to workThread_.submit: one task running the Impl
\* of the operation with the arguments captured at the call.
AddNetworkTasksTwice(op) == <<op, op>>

AddNetworkTasks(op) == <<op>>

EvictNetworkTasks(op) == <<op>>

\* runFunction's task captures id by value: [this, id, ...] (a task that reads
\* the counter when it is made, in place of the captured id, comes first).
RunFunctionTasksOtherId(op) == <<[op EXCEPT !.id = nextIdentifier_]>>

RunFunctionTasks(op) == <<op>>

\* ~QueueBackedDeviceManager: stop(true).
DestructorBlockFalse == FALSE

DestructorBlock == TRUE

\* stop(bool block) { workThread_.stop(block); }
StopBlockDropped(block) == FALSE

StopBlock(block) == block

\* The counter's first value is set where nextIdentifier_ is declared; no
\* property below depends on it.
InitDM ==
  /\ nextIdentifier_ = 0
  /\ workQueue = <<>>
  /\ shouldStop = FALSE
  /\ worker = [w \in Workers |-> "waiting"]
  /\ running = {}
  /\ pc = [t \in Producers |-> "idle"]
  /\ id = [t \in Producers |-> NoId]
  /\ calls = [t \in Producers |-> 0]
  /\ pcO = "live"
  /\ inDtor = FALSE
  /\ stopCalled = FALSE
  /\ submitted = <<>>
  /\ executed = <<>>
  /\ returned = [t \in Producers |-> <<>>]
  /\ atFirstStop = <<>>
  /\ pendingAtStop = <<>>
  /\ stopLog = {}

TotalCalls == calls[ProducerThread(1)] + calls[ProducerThread(2)]

\* A producer thread may begin a call while the object is alive and the
\* destructor has not begun.
MayCall(t) ==
  /\ pc[t] = "idle"
  /\ ~inDtor
  /\ TotalCalls < MaxOps

\* ThreadPool::submit: append the tasks to the queue, under the queue's lock.
Submit(tasks) == workQueue' = workQueue \o tasks

\* addNetwork(module, functions, callback)
AddNetwork(t) ==
  /\ MayCall(t)
  /\ LET op == Op("addNetwork", NoId, t, calls[t] + 1) IN
       /\ Submit(AddNetworkTasks(op))
       /\ submitted' = Append(submitted, op)
  /\ calls' = [calls EXCEPT ![t] = @ + 1]
  /\ UNCHANGED <<nextIdentifier_, shouldStop, worker, running, pc, id, pcO,
                 inDtor, stopCalled, executed, returned, atFirstStop,
                 pendingAtStop, stopLog>>
  /\ UNCHANGED <<topKVars, drvVars>>

\* evictNetwork(functionName)
EvictNetwork(t) ==
  /\ MayCall(t)
  /\ LET op == Op("evictNetwork", NoId, t, calls[t] + 1) IN
       /\ Submit(EvictNetworkTasks(op))
       /\ submitted' = Append(submitted, op)
  /\ calls' = [calls EXCEPT ![t] = @ + 1]
  /\ UNCHANGED <<nextIdentifier_, shouldStop, worker, running, pc, id, pcO,
                 inDtor, stopCalled, executed, returned, atFirstStop,
                 pendingAtStop, stopLog>>
  /\ UNCHANGED <<topKVars, drvVars>>

\* runFunction, first step: RunIdentifierTy id = nextIdentifier_++
RunFunctionAllocate(t) ==
  /\ MayCall(t)
  /\ id' = [id EXCEPT ![t] = nextIdentifier_]
  /\ nextIdentifier_' = NextIdentifier(nextIdentifier_)
  /\ calls' = [calls EXCEPT ![t] = @ + 1]
  /\ pc' = [pc EXCEPT ![t] = "run_submit"]
  /\ UNCHANGED <<workQueue, shouldStop, worker, running, pcO, inDtor,
                 stopCalled, submitted, executed, returned, atFirstStop,
                 pendingAtStop, stopLog>>
  /\ UNCHANGED <<topKVars, drvVars>>

\* runFunction, second step: workThread_.submit(funcShared); return id
RunFunctionSubmit(t) ==
  /\ pc[t] = "run_submit"
  /\ LET op == Op("runFunction", id[t], t, calls[t]) IN
       /\ Submit(RunFunctionTasks(op))
       /\ submitted' = Append(submitted, op)
  /\ returned' = [returned EXCEPT ![t] = Append(@, id[t])]
  /\ pc' = [pc EXCEPT ![t] = "idle"]
  /\ UNCHANGED <<nextIdentifier_, shouldStop, worker, running, id, calls, pcO,
                 inDtor, stopCalled, executed, atFirstStop,
                 pendingAtStop, stopLog>>
  /\ UNCHANGED <<topKVars, drvVars>>

\* The pool thread takes the oldest task and begins to run it.
WorkerTake(w) ==
  /\ worker[w] = "waiting"
  /\ workQueue # <<>>
  /\ workQueue' = Tail(workQueue)
  /\ executed' = Append(executed, Head(workQueue))
  /\ running' = running \cup {<<w, Head(workQueue)>>}
  /\ worker' = [worker EXCEPT ![w] = "running"]
  /\ UNCHANGED <<nextIdentifier_, shouldStop, pc, id, calls, pcO, inDtor,
                 stopCalled, submitted, returned, atFirstStop,
                 pendingAtStop, stopLog>>
  /\ UNCHANGED <<topKVars, drvVars>>

\* The task (addNetworkImpl, evictNetworkImpl or runFunctionImpl) returns.
WorkerFinish(w) ==
  /\ worker[w] = "running"
  /\ running' = {r \in running : r[1] # w}
  /\ worker' = [worker EXCEPT ![w] = "waiting"]
  /\ UNCHANGED <<nextIdentifier_, workQueue, shouldStop, pc, id, calls, pcO,
                 inDtor, stopCalled, submitted, executed, returned,
                 atFirstStop, pendingAtStop, stopLog>>
  /\ UNCHANGED <<topKVars, drvVars>>

\* The pool thread leaves its loop: stop was signalled and the queue is empty.
WorkerExit(w) ==
  /\ worker[w] = "waiting"
  /\ shouldStop
  /\ workQueue = <<>>
  /\ worker' = [worker EXCEPT ![w] = "exited"]
  /\ UNCHANGED <<nextIdentifier_, workQueue, shouldStop, running, pc, id,
                 calls, pcO, inDtor, stopCalled, submitted, executed,
                 returned, atFirstStop, pendingAtStop, stopLog>>
  /\ UNCHANGED <<topKVars, drvVars>>

AllExited == \A w \in Workers : worker[w] = "exited"

\* workThread_.stop(block), up to the join: signal the pool thread; return at
\* once when block is false.  asked is the argument the caller of the device
\* manager gave, kept for stopLog.
PoolStop(block, asked, by) ==
  /\ shouldStop' = TRUE
  /\ atFirstStop' = IF shouldStop THEN atFirstStop ELSE submitted
  /\ pendingAtStop' = IF shouldStop THEN pendingAtStop ELSE workQueue
  /\ IF block
       THEN /\ pcO' = "join"
            /\ stopLog' = stopLog
       ELSE /\ pcO' = IF by = "destructor" THEN "destroyed" ELSE "live"
            /\ stopLog' = stopLog \cup {<<asked, by>>}

\* stop(block), called by the owner while producer threads may be calling.
Stop(block) ==
  /\ pcO = "live"
  /\ ~inDtor
  /\ ~stopCalled
  /\ stopCalled' = TRUE
  /\ PoolStop(StopBlock(block), block, "stop")
  /\ UNCHANGED <<nextIdentifier_, workQueue, worker, running, pc, id, calls,
                 inDtor, submitted, executed, returned>>
  /\ UNCHANGED <<topKVars, drvVars>>

\* ~QueueBackedDeviceManager, entered when no call is in progress.
Destructor ==
  /\ pcO = "live"
  /\ ~inDtor
  /\ \A t \in Producers : pc[t] = "idle"
  /\ inDtor' = TRUE
  /\ PoolStop(DestructorBlock, TRUE, "destructor")
  /\ UNCHANGED <<nextIdentifier_, workQueue, worker, running, pc, id, calls,
                 stopCalled, submitted, executed, returned>>
  /\ UNCHANGED <<topKVars, drvVars>>

\* The join of a blocking stop ends once the pool thread has exited.
Join ==
  /\ pcO = "join"
  /\ AllExited
  /\ pcO' = IF inDtor THEN "destroyed" ELSE "live"
  /\ stopLog' = stopLog \cup {<<TRUE, IF inDtor THEN "destructor" ELSE "stop">>}
  /\ UNCHANGED <<nextIdentifier_, workQueue, shouldStop, worker, running, pc,
                 id, calls, inDtor, stopCalled, submitted, executed, returned,
                 atFirstStop, pendingAtStop>>
  /\ UNCHANGED <<topKVars, drvVars>>

NextDM ==
  \/ \E t \in Producers : AddNetwork(t)
  \/ \E t \in Producers : EvictNetwork(t)
  \/ \E t \in Producers : RunFunctionAllocate(t)
  \/ \E t \in Producers : RunFunctionSubmit(t)
  \/ \E w \in Workers : WorkerTake(w)
  \/ \E w \in Workers : WorkerFinish(w)
  \/ \E w \in Workers : WorkerExit(w)
  \/ \E block \in BOOLEAN : Stop(block)
  \/ Destructor
  \/ Join

\* ------------------------------------------------ main: the command line

\* The threads main starts are numbered by main's loop counter.
WorkerIds == 0..(MaxThreads - 1)

\* A filename: where it was given ("arg": the command line or the list file,
\* "stdin": a line of standard input), the line, and its 0-based position.
ImageName(from, line, pos) == <<from, line, pos>>

\* The command lines within the bounds.  listFile: -input-image-list-file is
\* given; positional, listed: filenames given as arguments and in the list
\* file; dash: the one filename is "-"; labels: -expected-labels given.
CommandLines ==
  {o \in [listFile : BOOLEAN, positional : 0..MaxImages,
          listed : 0..MaxImages, dash : BOOLEAN, labels : 0..MaxImages,
          miniBatch : 0..MaxMiniBatch, miniBatchThreads : 0..MaxThreads,
          emittingBundle : BOOLEAN, profilingGraph : BOOLEAN] :
     /\ ~o.listFile => o.listed = 0
     /\ o.listFile => (o.positional <= 1 /\ (o.positional = 1 => o.listed = 0))
     /\ o.dash => o.positional + o.listed = 1}

NoStatus == -1

\* inputImageFilenames.size(), once parseInputImageList has run.
InputSize == opts.positional + opts.listed

\* inputImageFilenames
AllFiles == [n \in 1..InputSize |-> ImageName("arg", 0, n - 1)]

StreamInputFilenamesMode == InputSize = 1 /\ opts.dash

MiniBatchMode == opts.miniBatch > 0

\* The conditions main rejects the command line on, in the order it tests
\* them.
NoInput == ~opts.listFile /\ opts.positional = 0

ListAndPositional == opts.listFile /\ opts.positional # 0

LabelCountDiffers == opts.labels # 0 /\ opts.labels # InputSize

StreamAndBundle == StreamInputFilenamesMode /\ opts.emittingBundle

StreamAndMiniBatch == MiniBatchMode /\ StreamInputFilenamesMode

\* (a test that lets every image count pass comes first)
NotMultipleIgnored == FALSE

NotMultiple == MiniBatchMode /\ InputSize % opts.miniBatch # 0

Rejected ==
  \/ NoInput
  \/ ListAndPositional
  \/ LabelCountDiffers
  \/ StreamAndBundle
  \/ StreamAndMiniBatch
  \/ NotMultiple

Min(a, b) == IF a < b THEN a ELSE b

MultiThreadingAllowed ==
  MiniBatchMode /\ ~opts.emittingBundle /\ ~opts.profilingGraph

NumBatches == IF MiniBatchMode THEN InputSize \div opts.miniBatch ELSE 1

\* (a thread count that single-threaded execution is not forced on)
NumThreadsUnforced == Min(opts.miniBatchThreads, NumBatches)

NumThreads ==
  IF MultiThreadingAllowed THEN Min(opts.miniBatchThreads, NumBatches) ELSE 1

MiniBatchesPerThread == (NumBatches + numThreads - 1) \div numThreads

StartIndex(n) ==
  IF numThreads > 1 THEN n * MiniBatchesPerThread * opts.miniBatch ELSE 0

EndIndex(n) ==
  IF numThreads > 1
    THEN Min((n + 1) * MiniBatchesPerThread * opts.miniBatch, InputSize)
    ELSE InputSize

InitMain ==
  /\ opts \in CommandLines
  /\ pcMain = "start"
  /\ numThreads = 0
  /\ spawned = 0
  /\ joined = 0
  /\ exitStatus = NoStatus
  /\ io_mu = {}
  /\ numErrors = 0
  /\ wpc = [w \in WorkerIds |-> "unstarted"]
  /\ imageRange = [w \in WorkerIds |-> <<0, 0>>]
  /\ isFirstRun = [w \in WorkerIds |-> TRUE]
  /\ miniBatchIndex = [w \in WorkerIds |-> 0]
  /\ inputImageBatchFilenames = [w \in WorkerIds |-> <<>>]
  /\ compiledSize = [w \in WorkerIds |-> 0]
  /\ sum = [w \in WorkerIds |-> 0]
  /\ linesRead = 0
  /\ lineLog = <<>>
  /\ inferences = {}
  /\ compiles = [w \in WorkerIds |-> 0]
  /\ checked = {}
  /\ mismatches = 0
  /\ serialized = {}

workerVars == <<wpc, imageRange, isFirstRun, miniBatchIndex,
                inputImageBatchFilenames, compiledSize, sum>>

historyVars == <<inferences, compiles, checked, mismatches, serialized>>

\* main ends before it starts a thread: how is "exited" (std::exit),
\* "returned" (return) or "aborted" (a failed GLOW_ASSERT).
MainEnds(how, status) ==
  /\ pcMain = "start"
  /\ pcMain' = how
  /\ exitStatus' = status
  /\ UNCHANGED <<opts, numThreads, spawned, joined, io_mu, numErrors,
                 linesRead, lineLog>>
  /\ UNCHANGED <<workerVars, historyVars>>
  /\ UNCHANGED <<topKVars, dmVars>>

\* Neither -input-image-list-file nor a positional filename: std::exit(1).
RejectNoInput ==
  /\ NoInput
  /\ MainEnds("exited", 1)

\* GLOW_ASSERT(inputImageFilenames.size() == 0 && ...) with a list file.
RejectListAndPositional ==
  /\ ~NoInput
  /\ ListAndPositional
  /\ MainEnds("aborted", NoStatus)

\* The number of labels differs from the number of files: return 1.
RejectLabelCount ==
  /\ ~(NoInput \/ ListAndPositional)
  /\ LabelCountDiffers
  /\ MainEnds("returned", 1)

\* GLOW_ASSERT(!(streamInputFilenamesMode && emittingBundle()) && ...)
RejectStreamAndBundle ==
  /\ ~(NoInput \/ ListAndPositional \/ LabelCountDiffers)
  /\ StreamAndBundle
  /\ MainEnds("aborted", NoStatus)

\* GLOW_ASSERT(((!miniBatchMode) || (!streamInputFilenamesMode)) && ...)
RejectStreamAndMiniBatch ==
  /\ ~(NoInput \/ ListAndPositional \/ LabelCountDiffers \/ StreamAndBundle)
  /\ StreamAndMiniBatch
  /\ MainEnds("aborted", NoStatus)

\* GLOW_ASSERT(((!miniBatchMode) ||
\*              (inputImageFilenames.size() % miniBatch == 0)) && ...)
RejectNotMultiple ==
  /\ ~(NoInput \/ ListAndPositional \/ LabelCountDiffers \/ StreamAndBundle
         \/ StreamAndMiniBatch)
  /\ NotMultiple
  /\ MainEnds("aborted", NoStatus)

\* The command line passed every test: numThreads is computed.
ComputeThreads ==
  /\ pcMain = "start"
  /\ ~Rejected
  /\ NumThreads > 0
  /\ numThreads' = NumThreads
  /\ pcMain' = "run"
  /\ UNCHANGED <<opts, spawned, joined, exitStatus, io_mu, numErrors,
                 linesRead, lineLog>>
  /\ UNCHANGED <<workerVars, historyVars>>
  /\ UNCHANGED <<topKVars, dmVars>>

\* numThreads is 0 (-minibatch-threads=0, or an empty list file with
\* -minibatch): miniBatchesPerThread divides by zero.  The division traps,
\* or yields a value the loops over no thread never use.
DivideByZero ==
  /\ pcMain = "start"
  /\ ~Rejected
  /\ NumThreads = 0
  /\ numThreads' = 0
  /\ \E trap \in BOOLEAN : pcMain' = IF trap THEN "aborted" ELSE "run"
  /\ UNCHANGED <<opts, spawned, joined, exitStatus, io_mu, numErrors,
                 linesRead, lineLog>>
  /\ UNCHANGED <<workerVars, historyVars>>
  /\ UNCHANGED <<topKVars, dmVars>>

\* ------------------------------------- main: the worker threads it starts

\* One iteration of the loop that starts the threads; the thread begins
\* processImageRange(startIndex, endIndex) and sets up its locals.
SpawnWorker ==
  /\ pcMain = "run"
  /\ spawned < numThreads
  /\ LET w == spawned IN
       /\ imageRange' =
            [imageRange EXCEPT ![w] = <<StartIndex(w), EndIndex(w)>>]
       /\ miniBatchIndex' = [miniBatchIndex EXCEPT ![w] = StartIndex(w)]
       /\ inputImageBatchFilenames' =
            [inputImageBatchFilenames EXCEPT
               ![w] = IF ~MiniBatchMode /\ ~StreamInputFilenamesMode
                        THEN AllFiles ELSE <<>>]
       /\ wpc' = [wpc EXCEPT ![w] = "loop"]
  /\ spawned' = spawned + 1
  /\ UNCHANGED <<opts, pcMain, numThreads, joined, exitStatus, io_mu,
                 numErrors, isFirstRun, compiledSize, sum,
                 linesRead, lineLog>>
  /\ UNCHANGED historyVars
  /\ UNCHANGED <<topKVars, dmVars>>

\* t.join() returns once the thread has ended.
\* (a join that returns at once comes first)
JoinReturnsAtOnce(w) == TRUE

JoinReturns(w) == wpc[w] = "done"

\* One iteration of the join loop.  The threads vector also holds numThreads
\* default-constructed threads, which are not joinable and are passed over.
JoinThread ==
  /\ pcMain = "run"
  /\ spawned = numThreads
  /\ joined < numThreads
  /\ JoinReturns(joined)
  /\ joined' = joined + 1
  /\ UNCHANGED <<opts, pcMain, numThreads, spawned, exitStatus, io_mu,
                 numErrors,
                 linesRead, lineLog>>
  /\ UNCHANGED <<workerVars, historyVars>>
  /\ UNCHANGED <<topKVars, dmVars>>

\* return numErrors
MainReturn ==
  /\ pcMain = "run"
  /\ spawned = numThreads
  /\ joined = numThreads
  /\ pcMain' = "returned"
  /\ exitStatus' = numErrors
  /\ UNCHANGED <<opts, numThreads, spawned, joined, io_mu, numErrors,
                 linesRead, lineLog>>
  /\ UNCHANGED <<workerVars, historyVars>>
  /\ UNCHANGED <<topKVars, dmVars>>

\* ------------------------------------------------------ processImageRange

\* A worker takes steps while the process runs.
Alive == pcMain = "run"

\* The lengths the next line of standard input may have; 0 is the empty
\* line, and the only one left once the input has ended.
LineLengths ==
  IF StreamInputFilenamesMode /\ linesRead < MaxLines
    THEN 0..MaxLineFiles ELSE {0}

\* getNextImageFilenames: the filenames of a line of n names.
StreamLine(n) == [k \in 1..n |-> ImageName("stdin", linesRead + 1, k - 1)]

\* getNextMiniBatch: false once miniBatchIndex has reached miniBatchLimit;
\* else the next miniBatchSize names of totalImageList.
\* (a test that lets the index reach the limit comes first)
GetNextMiniBatchAtLimit(w) == miniBatchIndex[w] <= imageRange[w][2]

GetNextMiniBatch(w) == miniBatchIndex[w] < imageRange[w][2]

MiniBatchFiles(w) ==
  [k \in 1..opts.miniBatch |-> ImageName("arg", 0, miniBatchIndex[w] + k - 1)]

\* The condition of the while loop, evaluated when the next line of standard
\* input holds n names: the filenames the worker holds afterwards, and
\* whether the body runs.
BatchAfter(w, n) ==
  IF StreamInputFilenamesMode THEN StreamLine(n)
  ELSE IF MiniBatchMode /\ GetNextMiniBatch(w) THEN MiniBatchFiles(w)
  ELSE inputImageBatchFilenames[w]

BodyRuns(w, n) ==
  \/ StreamInputFilenamesMode /\ n > 0
  \/ MiniBatchMode /\ GetNextMiniBatch(w)
  \/ isFirstRun[w]

\* What evaluating the condition changes.
LoopCondition(w, n) ==
  /\ wpc[w] = "loop"
  /\ Alive
  /\ inputImageBatchFilenames' =
       [inputImageBatchFilenames EXCEPT ![w] = BatchAfter(w, n)]
  /\ miniBatchIndex' =
       [miniBatchIndex EXCEPT
          ![w] = IF ~StreamInputFilenamesMode /\ MiniBatchMode
                      /\ GetNextMiniBatch(w)
                   THEN @ + opts.miniBatch ELSE @]
  /\ linesRead' =
       IF StreamInputFilenamesMode /\ linesRead < MaxLines
         THEN linesRead + 1 ELSE linesRead
  /\ lineLog' =
       IF StreamInputFilenamesMode THEN Append(lineLog, n) ELSE lineLog

\* The condition is false: the loop ends.
LoopEnd(w) ==
  /\ \E n \in LineLengths :
       /\ ~BodyRuns(w, n)
       /\ LoopCondition(w, n)
  /\ wpc' = [wpc EXCEPT ![w] = "after_loop"]
  /\ UNCHANGED <<opts, pcMain, numThreads, spawned, joined, exitStatus, io_mu,
                 numErrors, imageRange, isFirstRun, compiledSize, sum>>
  /\ UNCHANGED historyVars
  /\ UNCHANGED <<topKVars, dmVars>>

\* The body runs on no filename.  loadImagesAndPreprocess is declared in
\* Image.h and defined elsewhere; called with no filename it either ends the
\* process (this action) or hands back a batch of no image (FirstRun).
LoadFails(w) ==
  /\ \E n \in LineLengths :
       /\ BodyRuns(w, n)
       /\ BatchAfter(w, n) = <<>>
       /\ LoopCondition(w, n)
  /\ pcMain' = "aborted"
  /\ UNCHANGED <<opts, numThreads, spawned, joined, exitStatus, io_mu,
                 numErrors, wpc, imageRange, isFirstRun, compiledSize, sum>>
  /\ UNCHANGED historyVars
  /\ UNCHANGED <<topKVars, dmVars>>

\* isFirstRun = false, in the first run of the body.
\* (a body that leaves isFirstRun set comes first)
IsFirstRunKept == TRUE

IsFirstRunAfterwards == FALSE

\* The first run of the body, up to runInference: the images are loaded and
\* the model is built and compiled for them; when a bundle is emitted the
\* worker returns here.
FirstRun(w) ==
  /\ isFirstRun[w]
  /\ \E n \in LineLengths :
       /\ BodyRuns(w, n)
       /\ LoopCondition(w, n)
       /\ compiledSize' = [compiledSize EXCEPT ![w] = Len(BatchAfter(w, n))]
  /\ isFirstRun' = [isFirstRun EXCEPT ![w] = IsFirstRunAfterwards]
  /\ compiles' = [compiles EXCEPT ![w] = @ + 1]
  /\ wpc' = [wpc EXCEPT ![w] = IF opts.emittingBundle THEN "done" ELSE "infer"]
  /\ UNCHANGED <<opts, pcMain, numThreads, spawned, joined, exitStatus, io_mu,
                 numErrors, imageRange, sum>>
  /\ UNCHANGED <<inferences, checked, mismatches, serialized>>
  /\ UNCHANGED <<topKVars, dmVars>>

\* A later run of the body, up to runInference: the images are loaded, and
\* their shape is that of the compiled input.
NextRun(w) ==
  /\ ~isFirstRun[w]
  /\ \E n \in LineLengths :
       /\ BodyRuns(w, n)
       /\ Len(BatchAfter(w, n)) = compiledSize[w]
       /\ LoopCondition(w, n)
  /\ wpc' = [wpc EXCEPT ![w] = "infer"]
  /\ UNCHANGED <<opts, pcMain, numThreads, spawned, joined, exitStatus, io_mu,
                 numErrors, imageRange, isFirstRun, compiledSize, sum>>
  /\ UNCHANGED historyVars
  /\ UNCHANGED <<topKVars, dmVars>>

\* A later run of the body on a batch of another size:
\* GLOW_ASSERT(inputImagePH->dims() == inputImageData.dims() && ...) fails.
ShapeDiffers(w) ==
  /\ ~isFirstRun[w]
  /\ \E n \in LineLengths :
       /\ BodyRuns(w, n)
       /\ Len(BatchAfter(w, n)) # compiledSize[w]
       /\ LoopCondition(w, n)
  /\ pcMain' = "aborted"
  /\ UNCHANGED <<opts, numThreads, spawned, joined, exitStatus, io_mu,
                 numErrors, wpc, imageRange, isFirstRun, compiledSize, sum>>
  /\ UNCHANGED historyVars
  /\ UNCHANGED <<topKVars, dmVars>>

\* loader.runInference(bindings, batchSize)
RunInference(w) ==
  /\ wpc[w] = "infer"
  /\ Alive
  /\ inferences' = inferences \cup
       {[by |-> w,
         run |-> Cardinality({r \in inferences : r.by = w}) + 1,
         batch |-> inputImageBatchFilenames[w]]}
  /\ wpc' = [wpc EXCEPT ![w] = "lock"]
  /\ UNCHANGED <<opts, pcMain, numThreads, spawned, joined, exitStatus, io_mu,
                 numErrors, imageRange, isFirstRun, miniBatchIndex,
                 inputImageBatchFilenames, compiledSize, sum,
                 linesRead, lineLog>>
  /\ UNCHANGED <<compiles, checked, mismatches, serialized>>
  /\ UNCHANGED <<topKVars, dmVars>>

\* ScopedLock's constructor, mu.lock(), returns when no thread holds mu.
\* (a lock that never waits comes first)
LockReturnsAtOnce(mu) == TRUE

LockReturns(mu) == mu = {}

\* processAndPrintResultsImpl, the loop over the samples of the batch: with
\* expected labels given, sample i is checked against
\* expectedMatchingLabels[i].  The label index read for the sample at
\* 0-based position pos of the batch:
ExpectedLabelIndex(w, pos) == pos

\* The samples a batch may fail on: any, when labels are given (the output
\* of the model is not modelled); none otherwise.
FailingSamples(w) ==
  IF opts.labels # 0
    THEN SUBSET (1..Len(inputImageBatchFilenames[w])) ELSE {{}}

\* ScopedLock lock(io_mu); numErrors += processAndPrintResults(...), up to
\* the store: the lock is taken, the results are printed and checked, and
\* the sum is formed.
PrintResults(w) ==
  /\ wpc[w] = "lock"
  /\ Alive
  /\ LockReturns(io_mu)
  /\ io_mu' = io_mu \cup {w}
  /\ \E fails \in FailingSamples(w) :
       /\ sum' = [sum EXCEPT ![w] = numErrors + Cardinality(fails)]
       /\ mismatches' = mismatches + Cardinality(fails)
  /\ checked' =
       IF opts.labels # 0
         THEN checked \cup
                {<<inputImageBatchFilenames[w][k],
                   ExpectedLabelIndex(w, k - 1)>> :
                     k \in 1..Len(inputImageBatchFilenames[w])}
         ELSE checked
  /\ wpc' = [wpc EXCEPT ![w] = "print"]
  /\ UNCHANGED <<opts, pcMain, numThreads, spawned, joined, exitStatus,
                 numErrors, imageRange, isFirstRun, miniBatchIndex,
                 inputImageBatchFilenames, compiledSize,
                 linesRead, lineLog>>
  /\ UNCHANGED <<inferences, compiles, serialized>>
  /\ UNCHANGED <<topKVars, dmVars>>

\* The sum is stored in numErrors and ScopedLock's destructor unlocks io_mu.
StoreAndUnlock(w) ==
  /\ wpc[w] = "print"
  /\ Alive
  /\ numErrors' = sum[w]
  /\ io_mu' = io_mu \ {w}
  /\ wpc' = [wpc EXCEPT ![w] = "loop"]
  /\ UNCHANGED <<opts, pcMain, numThreads, spawned, joined, exitStatus,
                 imageRange, isFirstRun, miniBatchIndex,
                 inputImageBatchFilenames, compiledSize, sum,
                 linesRead, lineLog>>
  /\ UNCHANGED historyVars
  /\ UNCHANGED <<topKVars, dmVars>>

\* After the loop: the quantization profile is serialized when profiling,
\* and the worker returns.
AfterLoop(w) ==
  /\ wpc[w] = "after_loop"
  /\ Alive
  /\ serialized' = IF opts.profilingGraph THEN serialized \cup {w}
                                          ELSE serialized
  /\ wpc' = [wpc EXCEPT ![w] = "done"]
  /\ UNCHANGED <<opts, pcMain, numThreads, spawned, joined, exitStatus, io_mu,
                 numErrors, imageRange, isFirstRun, miniBatchIndex,
                 inputImageBatchFilenames, compiledSize, sum,
                 linesRead, lineLog>>
  /\ UNCHANGED <<inferences, compiles, checked, mismatches>>
  /\ UNCHANGED <<topKVars, dmVars>>

NextMain ==
  \/ RejectNoInput
  \/ RejectListAndPositional
  \/ RejectLabelCount
  \/ RejectStreamAndBundle
  \/ RejectStreamAndMiniBatch
  \/ RejectNotMultiple
  \/ ComputeThreads
  \/ DivideByZero
  \/ SpawnWorker
  \/ JoinThread
  \/ MainReturn
  \/ \E w \in WorkerIds : LoopEnd(w)
  \/ \E w \in WorkerIds : LoadFails(w)
  \/ \E w \in WorkerIds : FirstRun(w)
  \/ \E w \in WorkerIds : NextRun(w)
  \/ \E w \in WorkerIds : ShapeDiffers(w)
  \/ \E w \in WorkerIds : RunInference(w)
  \/ \E w \in WorkerIds : PrintResults(w)
  \/ \E w \in WorkerIds : StoreAndUnlock(w)
  \/ \E w \in WorkerIds : AfterLoop(w)

\* The driver has not been started with any argument and has ended.
NoArguments ==
  [listFile |-> FALSE, positional |-> 0, listed |-> 0, dash |-> FALSE,
   labels |-> 0, miniBatch |-> 0, miniBatchThreads |-> 1,
   emittingBundle |-> FALSE, profilingGraph |-> FALSE]

InitDriverEnded ==
  /\ opts = NoArguments
  /\ pcMain = "exited"
  /\ numThreads = 0
  /\ spawned = 0
  /\ joined = 0
  /\ exitStatus = 1
  /\ io_mu = {}
  /\ numErrors = 0
  /\ wpc = [w \in WorkerIds |-> "unstarted"]
  /\ imageRange = [w \in WorkerIds |-> <<0, 0>>]
  /\ isFirstRun = [w \in WorkerIds |-> TRUE]
  /\ miniBatchIndex = [w \in WorkerIds |-> 0]
  /\ inputImageBatchFilenames = [w \in WorkerIds |-> <<>>]
  /\ compiledSize = [w \in WorkerIds |-> 0]
  /\ sum = [w \in WorkerIds |-> 0]
  /\ linesRead = 0
  /\ lineLog = <<>>
  /\ inferences = {}
  /\ compiles = [w \in WorkerIds |-> 0]
  /\ checked = {}
  /\ mismatches = 0
  /\ serialized = {}

\* ---------------------------------------------------------- specifications

\* getTopKPairs on every vector and K within the bounds; no device manager
\* operation runs.
InitReducer ==
  /\ InitTopK
  /\ InitDM
  /\ InitDriverEnded

SpecTopK == InitReducer /\ [][NextTopK]_vars

\* One device manager, its producer threads, its owner and its pool thread.
\* The reducer is not running: its variables hold the state after a call on a
\* one-element vector has returned.
InitDeviceManager ==
  /\ H = <<0>>
  /\ topKCount = 1
  /\ i = 1
  /\ topKQueue = {}
  /\ res = <<<<0, 0>>>>
  /\ pcK = "done"
  /\ labelOffset = 0
  /\ labelsGiven = FALSE
  /\ expectedCategoryIndex = 0
  /\ retVal = 0
  /\ InitDM
  /\ InitDriverEnded

SpecDM == InitDeviceManager /\ [][NextDM]_vars

\* One run of the driver, from the command line to the end of the process.
\* The reducer and the device manager are not running.
InitDriver ==
  /\ H = <<0>>
  /\ topKCount = 1
  /\ i = 1
  /\ topKQueue = {}
  /\ res = <<<<0, 0>>>>
  /\ pcK = "done"
  /\ labelOffset = 0
  /\ labelsGiven = FALSE
  /\ expectedCategoryIndex = 0
  /\ retVal = 0
  /\ InitDM
  /\ InitMain

SpecMain == InitDriver /\ [][NextMain]_vars

\* The three components side by side.
Init ==
  /\ InitTopK
  /\ InitDM
  /\ InitMain

Next == NextTopK \/ NextDM \/ NextMain

Spec == Init /\ [][Next]_vars

\* ----------------------------------------------------------- claims C5-C10

IsRun(task) == task.kind = "runFunction"

\* The positions p < q of s that both hold runFunction tasks.
RunPairs(s) ==
  {pq \in (1..Len(s)) \X (1..Len(s)) :
     pq[1] < pq[2] /\ IsRun(s[pq[1]]) /\ IsRun(s[pq[2]])}

IsPrefix(s, t) ==
  /\ Len(s) <= Len(t)
  /\ \A n \in 1..Len(s) : s[n] = t[n]

\* C5 as stated: of any two runFunction calls, whatever threads made them,
\* the one with the smaller run identifier is enqueued first, and the worker
\* never executes a run with a larger identifier before one with a smaller.
C5_IdOrderIsQueueOrder ==
  /\ \A pq \in RunPairs(submitted) : submitted[pq[1]].id < submitted[pq[2]].id
  /\ \A pq \in RunPairs(executed) : executed[pq[1]].id < executed[pq[2]].id

\* C5 amended: of two runFunction calls made by the same producer thread, the
\* one with the smaller run identifier is enqueued first and executed first,
\* and the worker executes the tasks in the order they were enqueued.  Calls
\* of different threads may be enqueued, and so executed, against the order
\* of their identifiers: the identifier is taken before the task is enqueued,
\* and another thread's call may do both steps in between.
C5_IdOrderPerThread ==
  /\ \A pq \in RunPairs(submitted) :
       submitted[pq[1]].by = submitted[pq[2]].by
         => submitted[pq[1]].id < submitted[pq[2]].id
  /\ \A pq \in RunPairs(executed) :
       executed[pq[1]].by = executed[pq[2]].by
         => executed[pq[1]].id < executed[pq[2]].id
  /\ IsPrefix(executed, submitted)

\* Three runs executed: two of one thread in the order of their identifiers,
\* and two of different threads against it.
C5_Witness ==
  /\ Len(executed) = 3
  /\ \E pq \in RunPairs(executed) :
       /\ executed[pq[1]].by = executed[pq[2]].by
       /\ executed[pq[1]].id < executed[pq[2]].id
  /\ \E pq \in RunPairs(executed) :
       /\ executed[pq[1]].by # executed[pq[2]].by
       /\ executed[pq[1]].id > executed[pq[2]].id

\* The identifiers taken so far: those returned, and those of the calls that
\* have taken one and not yet returned.
InFlight(t) == pc[t] = "run_submit"

\* C6: the run identifiers returned by runFunction calls made concurrently
\* are pairwise distinct and never reused (an identifier held by a call still
\* in progress included), and those returned to one thread are strictly
\* increasing in that thread's call order.
C6_IdsDistinctAndIncreasing ==
  /\ \A t \in Producers : \A p, q \in 1..Len(returned[t]) :
       p < q => returned[t][p] < returned[t][q]
  /\ \A t, u \in Producers :
       \A p \in 1..Len(returned[t]) : \A q \in 1..Len(returned[u]) :
         t # u => returned[t][p] # returned[u][q]
  /\ \A t, u \in Producers :
       (InFlight(t) /\ InFlight(u) /\ t # u) => id[t] # id[u]
  /\ \A t, u \in Producers : \A q \in 1..Len(returned[u]) :
       InFlight(t) => id[t] # returned[u][q]

\* Two threads have taken identifiers in turn: one thread holds the first and
\* the third, the other the second, taken while the first call was in
\* progress.
C6_Witness ==
  \E t, u \in Producers :
    /\ t # u
    /\ Len(returned[t]) = 2
    /\ Len(returned[u]) = 1
    /\ returned[t][1] < returned[u][1]
    /\ returned[u][1] < returned[t][2]
    /\ submitted[1].by = u

\* No call is in progress and no pool thread can take a step.
Quiescent ==
  /\ \A t \in Producers : pc[t] = "idle"
  /\ running = {}
  /\ \A w \in Workers :
       worker[w] = "exited" \/ (worker[w] = "waiting" /\ workQueue = <<>>)

\* Tasks of one thread appear in s in the order of that thread's calls.
ProgramOrder(s) ==
  \A p, q \in 1..Len(s) : (p < q /\ s[p].by = s[q].by) => s[p].seq < s[q].seq

\* C7 as stated: the N operations submitted by the producer threads are each
\* executed exactly once, N executions in all, and those of one thread in
\* that thread's order.
C7_AllExecutedOnce ==
  /\ ProgramOrder(executed)
  /\ \A p, q \in 1..Len(executed) : p # q => executed[p] # executed[q]
  /\ Quiescent => Len(executed) = Len(submitted)

\* C7 amended: every submitted operation is executed at most once, in the
\* order of the queue and so, for one thread, in that thread's order; each
\* operation is either executed or still queued; every operation submitted
\* before stop is first called (by stop or by the destructor) has been
\* executed exactly once when the worker has exited.  An operation submitted
\* after the worker has exited is never executed.
C7_ExecutedOnceUntilStopped ==
  /\ ProgramOrder(executed)
  /\ \A p, q \in 1..Len(executed) : p # q => executed[p] # executed[q]
  /\ submitted = executed \o workQueue
  /\ AllExited => IsPrefix(atFirstStop, executed)
  /\ (Quiescent /\ ~shouldStop) => Len(executed) = Len(submitted)

\* Two operations of different threads were submitted before stop and are
\* executed; a third, submitted after the worker exited, stays in the queue.
C7_Witness ==
  /\ AllExited
  /\ Len(atFirstStop) = 2
  /\ Len(executed) = 2
  /\ executed[1].by # executed[2].by
  /\ Len(workQueue) = 1

\* C8: no two device operations of one manager are executing at the same
\* time, and each is executed by the one thread of the pool, never by a
\* producer thread.
C8_OneAtATimeOnWorker ==
  /\ Cardinality(running) <= 1
  /\ \A r \in running : r[1] = WorkerThread(1) /\ r[1] \notin Producers

\* An operation is executing while another waits in the queue and a producer
\* thread is inside runFunction.
C8_Witness ==
  /\ Cardinality(running) = 1
  /\ workQueue # <<>>
  /\ \E t \in Producers : InFlight(t)

C10_DestructorJoins ==
  pcO = "destroyed" =>
    /\ AllExited
    /\ running = {}
    /\ <<TRUE, "destructor">> \in stopLog

\* The destructor has returned, stop was never called, and operations were
\* still waiting in the queue when the destructor began.
C10_Witness ==
  /\ pcO = "destroyed"
  /\ ~stopCalled
  /\ pendingAtStop # <<>>

\* ---------------------------------------------------------------- claim C11

\* The runFunction tasks of thread t in s, in the order of s.
RunTasksOf(s, t) == SelectSeq(s, LAMBDA task : IsRun(task) /\ task.by = t)

IdsOf(s) == [n \in 1..Len(s) |-> s[n].id]

\* C11: runFunction enqueues exactly one run task and returns its identifier
\* without waiting for the task to execute (the return is possible whatever
\* the pool thread is doing, and needs no task to have run), and the
\* identifier passed to runFunctionImpl for that task is the one returned to
\* the caller: for each thread the identifiers of its run tasks, executed or
\* queued, are the identifiers returned to it, call by call.
C11_OneTaskWithReturnedId ==
  /\ \A t \in Producers :
       IdsOf(RunTasksOf(executed \o workQueue, t)) = returned[t]
  /\ \A t \in Producers :
       IdsOf(RunTasksOf(executed, t)) =
         SubSeq(returned[t], 1, Len(RunTasksOf(executed, t)))
  /\ \A t \in Producers : InFlight(t) => ENABLED RunFunctionSubmit(t)

\* Two runFunction calls of one thread have returned; the task of the first
\* has been passed to runFunctionImpl and the task of the second is still in
\* the queue.
C11_Witness ==
  \E t \in Producers :
    /\ Len(returned[t]) = 2
    /\ Len(RunTasksOf(executed, t)) = 1
    /\ Len(RunTasksOf(workQueue, t)) = 1
    /\ workQueue[Len(workQueue)].id = returned[t][2]

\* ------------------------------------------------------- claims C12-C20

\* The workers main has started.
Started == {w \in WorkerIds : wpc[w] # "unstarted"}

\* main is past the loop that starts the threads (the command line passed
\* its tests and every range has been assigned).
AllStarted ==
  /\ pcMain \in {"run", "returned"}
  /\ ~Rejected
  /\ spawned = numThreads

\* main has returned numErrors, after the join loop.
ReturnedFromRun == pcMain = "returned" /\ ~Rejected

\* The workers whose range [startIndex, endIndex) holds the image index.
RangesHolding(index) ==
  {w \in Started : imageRange[w][1] <= index /\ index < imageRange[w][2]}

\* C12: minibatch partitioning.  For every image count that is a multiple of
\* the minibatch size and every worker count main computes, the ranges
\* [startIndex, endIndex) assigned to the workers cover every index of
\* [0, T) exactly once, with no gap and no overlap.
C12_RangesCoverEachIndexOnce ==
  (AllStarted /\ MiniBatchMode) =>
    \A index \in 0..(InputSize - 1) : Cardinality(RangesHolding(index)) = 1

\* The minibatches in the range of worker w.
RangeBatches(w) ==
  IF imageRange[w][2] > imageRange[w][1]
    THEN (imageRange[w][2] - imageRange[w][1]) \div opts.miniBatch
    ELSE 0

\* C13: the partitioning is as even as possible: the numbers of minibatches
\* assigned to any two workers differ by at most one.
C13_BatchCountsDifferByAtMostOne ==
  (AllStarted /\ MiniBatchMode) =>
    \A w, v \in Started : RangeBatches(w) - RangeBatches(v) <= 1

\* The runInference calls on the minibatch that starts at image index s.
RunsAt(s) ==
  {r \in inferences : r.batch # <<>> /\ r.batch[1] = ImageName("arg", 0, s)}

\* C14: in minibatch mode with T images, T a positive multiple of the
\* minibatch size m, and a thread count of one or more (no bundle is
\* emitted), the workers execute T/m inferences in all, and each minibatch
\* start offset 0, m, ..., T-m is run by exactly one worker exactly once.
C14_EachMiniBatchRunOnce ==
  (/\ ReturnedFromRun
   /\ MiniBatchMode
   /\ InputSize > 0
   /\ opts.miniBatchThreads >= 1
   /\ ~opts.emittingBundle) =>
    /\ Cardinality(inferences) = InputSize \div opts.miniBatch
    /\ \A k \in 0..((InputSize \div opts.miniBatch) - 1) :
         Cardinality(RunsAt(k * opts.miniBatch)) = 1

\* C15: exactly one worker thread is used, whatever -minibatch-threads is,
\* when minibatch mode is off, or a bundle is emitted, or a quantization
\* profile is collected.
C15_OneWorkerWhenForced ==
  (/\ pcMain \in {"run", "returned"}
   /\ ~Rejected
   /\ (opts.miniBatch = 0 \/ opts.emittingBundle \/ opts.profilingGraph)) =>
    /\ numThreads = 1
    /\ Started \subseteq {0}
    /\ spawned = numThreads => Started = {0}

\* Three threads are asked for while a profile is collected: the one worker
\* has run every minibatch and main has returned.
C15_Witness ==
  /\ ReturnedFromRun
  /\ opts.miniBatchThreads = MaxThreads
  /\ opts.profilingGraph
  /\ opts.miniBatch = 1
  /\ Started = {0}
  /\ Cardinality(inferences) = MaxImages

\* C16: under any interleaving of the workers at most one worker at a time is
\* inside the section that prints a batch's results and adds its mismatches
\* to numErrors, so no update of numErrors is lost (numErrors, with the sum
\* the worker in the section is about to store, is the number of mismatches
\* found so far); inference runs outside the mutex: a worker at runInference
\* does not hold io_mu and need not wait for it.
C16_ResultsUnderMutex ==
  /\ Cardinality(io_mu) <= 1
  /\ \A w \in WorkerIds : wpc[w] = "print" <=> w \in io_mu
  /\ io_mu = {} => numErrors = mismatches
  /\ \A w \in io_mu : sum[w] = mismatches
  /\ \A w \in WorkerIds :
       (wpc[w] = "infer" /\ Alive) =>
         (w \notin io_mu /\ ENABLED RunInference(w))

\* One worker is at runInference while another is inside the section, and a
\* third waits for the mutex; mismatches have been counted before.
C16_Witness ==
  /\ \E w, v, u \in WorkerIds :
       /\ wpc[w] = "infer"
       /\ wpc[v] = "print"
       /\ wpc[u] = "lock"
  /\ numErrors > 0
  /\ Alive

\* C17 as stated: main returns only after every worker it started has
\* ended, and the value it returns is the sum of the mismatch counts
\* processAndPrintResults returned, over all batches of all workers.
C17_ReturnsSumAfterJoin ==
  pcMain = "returned" =>
    /\ \A w \in Started : wpc[w] = "done"
    /\ exitStatus = mismatches

\* C17 amended: when main returns after the join loop, every worker it
\* started has ended and the value it returns is the sum of the mismatch
\* counts processAndPrintResults returned, over all batches of all workers.
\* main also returns when the number of expected labels differs from the
\* number of files: then it returns 1, with no worker started and no batch
\* processed.
C17_ReturnsSumAfterJoinOrOne ==
  /\ ReturnedFromRun =>
       /\ \A w \in Started : wpc[w] = "done"
       /\ Cardinality(Started) = numThreads
       /\ exitStatus = mismatches
       /\ exitStatus = numErrors
  /\ (pcMain = "returned" /\ Rejected) =>
       /\ Started = {}
       /\ exitStatus = 1
       /\ mismatches = 0

\* main has returned 2 after three workers found two mismatches among them.
C17_Witness ==
  /\ ReturnedFromRun
  /\ Cardinality(Started) = MaxThreads
  /\ exitStatus = 2
  /\ \A w \in Started : wpc[w] = "done"

\* The conditions claim C18 names, on the command line alone.
ConfigurationRejected ==
  \/ ~opts.listFile /\ opts.positional = 0
  \/ opts.labels # 0 /\ opts.labels # opts.positional + opts.listed
  \/ opts.miniBatch > 0 /\ opts.positional + opts.listed = 1 /\ opts.dash
  \/ opts.miniBatch > 0 /\ (opts.positional + opts.listed) % opts.miniBatch # 0

\* C18: whenever the configuration is rejected (no input images given,
\* expected-label count different from the image count, streaming together
\* with minibatching, image count not a multiple of the minibatch size) the
\* program ends with a nonzero status or aborts before any worker thread is
\* started: no model is built and no inference is made.
C18_RejectedBeforeAnyWorker ==
  ConfigurationRejected =>
    /\ pcMain \in {"start", "exited", "returned", "aborted"}
    /\ pcMain \in {"exited", "returned"} => exitStatus = 1
    /\ Started = {}
    /\ \A w \in WorkerIds : compiles[w] = 0
    /\ inferences = {}

\* Three images with a minibatch size of two and several threads asked for:
\* the program has aborted.
C18_Witness ==
  /\ opts.positional = 3
  /\ opts.miniBatch = 2
  /\ opts.miniBatchThreads > 1
  /\ opts.labels = 0
  /\ pcMain = "aborted"

\* The sample has been checked: processAndPrintResultsImpl is past the call.
SampleChecked == pcK = "checked"

\* C19: checkExpectedLabel returns 0 if and only if the expected index equals
\* (returned index minus label offset) for at least one of the K returned
\* pairs, and 1 otherwise; each failing sample adds exactly one to the
\* mismatch count (and a passing sample, or a sample with no expected label
\* given, adds nothing).
C19_ZeroIffSomePairMatches ==
  SampleChecked =>
    LET matches == \E p \in 1..Len(res) :
                     res[p][2] - labelOffset = expectedCategoryIndex
    IN /\ (labelsGiven /\ matches) => retVal = 0
       /\ (labelsGiven /\ ~matches) => retVal = 1
       /\ ~labelsGiven => retVal = 0

\* The expected label is matched by the second of three returned pairs, with
\* a label offset in use; and a sample fails although a returned index
\* equals the expected one before the offset is taken off.
C19_Witness ==
  /\ SampleChecked
  /\ labelsGiven
  /\ labelOffset > 0
  /\ Len(res) = 3
  /\ \/ /\ retVal = 0
        /\ res[2][2] - labelOffset = expectedCategoryIndex
        /\ res[1][2] - labelOffset # expectedCategoryIndex
     \/ /\ retVal = 1
        /\ \E p \in 1..Len(res) : res[p][2] = expectedCategoryIndex

\* C20: in validation mode the sample at position i of the minibatch that
\* starts at global offset s is checked against expected label number s + i,
\* the label of that image in the input list, for every minibatch of every
\* worker.
C20_CheckedAgainstOwnLabel ==
  \A c \in checked : c[1][1] = "arg" => c[2] = c[1][3]

\* ------------------------------------------------------- claims C21-C28

\* The runInference calls of worker w.
RunsOf(w) == {r \in inferences : r.by = w}

\* C21: each worker builds and compiles its model exactly once, in the first
\* run of the loop body and before its first inference, and never again on
\* later batches; when a bundle is emitted the worker returns right after the
\* compile: it runs no inference, prints and checks no result, never takes
\* io_mu and serializes no profile.
C21_CompiledOnceBeforeInference ==
  /\ \A w \in WorkerIds :
       /\ compiles[w] <= 1
       /\ compiles[w] = 1 <=> ~isFirstRun[w]
       /\ wpc[w] \in {"infer", "lock", "print", "after_loop", "done"}
            => compiles[w] = 1
       /\ RunsOf(w) # {} => compiles[w] = 1
       /\ wpc[w] \in {"unstarted"} => compiles[w] = 0
  /\ opts.emittingBundle =>
       /\ inferences = {}
       /\ checked = {}
       /\ mismatches = 0
       /\ io_mu = {}
       /\ serialized = {}
       /\ \A w \in WorkerIds :
            wpc[w] \in {"unstarted", "loop", "done"}

\* A worker has ended after two inferences and one compile, while another
\* worker, which compiled its own model, is still at work.
C21_Witness ==
  \E w, v \in WorkerIds :
    /\ w # v
    /\ wpc[w] = "done"
    /\ Cardinality(RunsOf(w)) = 2
    /\ compiles[w] = 1
    /\ compiles[v] = 1
    /\ wpc[v] = "lock"

\* The lines of s that hold a name.
NonEmptyLines(s) == {k \in 1..Len(s) : s[k] > 0}

\* C22: in streaming mode the worker runs one inference per non-empty line
\* read from standard input and stops at the first empty line: no line is
\* asked for after an empty one, and no image is loaded, no model compiled
\* and no inference run for an empty line, also when the very first line is
\* empty.
C22_OneInferencePerNonEmptyLine ==
  StreamInputFilenamesMode =>
    /\ \A k \in 1..(Len(lineLog) - 1) : lineLog[k] > 0
    /\ \A r \in inferences : r.batch # <<>>
    /\ Cardinality(inferences) <= Cardinality(NonEmptyLines(lineLog))
    /\ wpc[0] = "done" =>
         Cardinality(inferences) = Cardinality(NonEmptyLines(lineLog))
    /\ (lineLog # <<>> /\ lineLog[1] = 0) =>
         (compiles[0] = 0 /\ pcMain # "aborted")

\* The filenames at global indices first, first + 1, ..., first + m - 1.
Slice(first, m) == [j \in 1..m |-> ImageName("arg", 0, first + j - 1)]

\* C23: within one worker the minibatches are processed one after another in
\* increasing start-offset order: the k-th inference of a worker with range
\* [startIndex, endIndex) is run on exactly the filenames at global indices
\* startIndex + (k-1)*m up to startIndex + k*m - 1, in input order, and these
\* lie inside the range.
C23_KthInferenceOnKthSlice ==
  MiniBatchMode =>
    \A r \in inferences :
      /\ r.batch =
           Slice(imageRange[r.by][1] + (r.run - 1) * opts.miniBatch,
                 opts.miniBatch)
      /\ imageRange[r.by][1] + r.run * opts.miniBatch <= imageRange[r.by][2]

\* A step in which worker w, in minibatch mode, evaluates the loop condition
\* and so calls getNextMiniBatch, set against the contract of claim C24.
\* The call returned true when the body runs although isFirstRun is false,
\* and false when the loop ends.
GetNextMiniBatchContract(w) ==
  (MiniBatchMode /\ wpc[w] = "loop") =>
    IF miniBatchIndex[w] >= imageRange[w][2]
      THEN /\ miniBatchIndex'[w] = miniBatchIndex[w]
           /\ inputImageBatchFilenames'[w] = inputImageBatchFilenames[w]
           /\ wpc'[w] \in {"infer", "done"} => isFirstRun[w]
      ELSE \/ /\ wpc'[w] = "loop"
              /\ miniBatchIndex'[w] = miniBatchIndex[w]
              /\ inputImageBatchFilenames'[w] = inputImageBatchFilenames[w]
           \/ /\ wpc'[w] \in {"infer", "done"}
              /\ miniBatchIndex'[w] = miniBatchIndex[w] + opts.miniBatch
              /\ inputImageBatchFilenames'[w] =
                   Slice(miniBatchIndex[w], opts.miniBatch)
              /\ Len(inputImageBatchFilenames'[w]) = opts.miniBatch

\* Every filename a worker holds was read from totalImageList at an index
\* below its length.
ReadsInBounds ==
  \A w \in WorkerIds : \A k \in 1..Len(inputImageBatchFilenames[w]) :
    inputImageBatchFilenames[w][k][1] = "arg"
      => inputImageBatchFilenames[w][k][3] < InputSize

\* C24: getNextMiniBatch returns false and leaves miniBatchIndex and
\* imageList unchanged when miniBatchIndex >= miniBatchLimit; otherwise it
\* returns true, replaces imageList by exactly miniBatchSize filenames (those
\* from miniBatchIndex on) and advances miniBatchIndex by exactly
\* miniBatchSize; over any run of a worker it never reads an index at or
\* beyond the length of the total image list.
C24_GetNextMiniBatchContract ==
  /\ []ReadsInBounds
  /\ [][\A w \in WorkerIds : GetNextMiniBatchContract(w)]_vars

\* A worker has taken two minibatches of two filenames, and the third call
\* has returned false and ended its loop with the index at the limit.
C24_Witness ==
  \E w \in WorkerIds :
    /\ opts.miniBatch = 2
    /\ wpc[w] = "after_loop"
    /\ Cardinality(RunsOf(w)) = 2
    /\ miniBatchIndex[w] = imageRange[w][2]
    /\ inputImageBatchFilenames[w] = Slice(imageRange[w][2] - 2, 2)

\* C25: every worker thread main starts in minibatch mode is assigned a
\* non-empty range (startIndex < endIndex), so no worker loads images or runs
\* inference on an empty list of filenames.
C25_RangesNotEmpty ==
  MiniBatchMode =>
    /\ \A w \in Started : imageRange[w][1] < imageRange[w][2]
    /\ \A w \in WorkerIds :
         wpc[w] \in {"infer", "lock", "print"}
           => inputImageBatchFilenames[w] # <<>>
    /\ \A r \in inferences : r.batch # <<>>

\* C26: for every configuration that passes the checks of main the computed
\* worker count is at least 1 and at most min(minibatch-threads, number of
\* minibatches), so the division that computes miniBatchesPerThread never
\* divides by zero and at least one worker processes the input.
C26_WorkerCountInBounds ==
  (~Rejected /\ pcMain # "start") =>
    /\ numThreads >= 1
    /\ numThreads <= Min(opts.miniBatchThreads, NumBatches)
    /\ pcMain = "returned" => Started # {}

\* C27: in validation mode the expected-label list is never indexed at or
\* beyond its length: in every mode each sample position used to read
\* expectedMatchingLabels[i] is smaller than the number of expected labels
\* main accepted.
C27_LabelIndexInBounds ==
  \A c \in checked : c[2] < opts.labels

\* C28: the label reported or compared for a returned pair is its index minus
\* the label offset and is never negative: no returned index is smaller than
\* the label offset, so the unsigned subtraction never wraps around.
C28_LabelNeverWraps ==
  SampleChecked =>
    \A p \in 1..Len(res) :
      /\ res[p][2] >= labelOffset
      /\ LabelOf(res[p][2]) = res[p][2] - labelOffset

==========================================================================
